---- MODULE Spec2Model ----
(***************************************************************************)
(* Model of openalex_creation_update.py: the incremental synchronisation   *)
(* of a paginated record source into a target collection (works), with a   *)
(* run-log collection (meta) that supplies the watermark of the next run.  *)
(*                                                                         *)
(* Timestamp strings are tuples: <<s>> is "...:ss" (no fraction), <<s, u>> *)
(* is "...:ss.uuuuuu", every other tuple is a string fromisoformat rejects *)
(* (<<>> is the empty string, which Python also treats as falsy).  A       *)
(* datetime is a number of clock ticks, Unit ticks to the second.          *)
(***************************************************************************)
EXTENDS Integers, Sequences, FiniteSets, TLC

\* ------------------------------------------------------------------ bounds
MaxRuns == 3        \* invocations of run() in one behaviour
MaxClock == 1       \* largest wall-clock reading, in ticks
Unit == 2           \* ticks per second (resolution of the fraction field)

\* ------------------------------------------------------- timestamp strings
DEFAULT_DATE == <<0, 0>>

WellFormed(s) ==
    \/ Len(s) = 1 /\ s[1] \in Nat
    \/ Len(s) = 2 /\ s[1] \in Nat /\ s[2] \in 0..(Unit - 1)

\* datetime.fromisoformat on a string it accepts
fromisoformat(s) == IF Len(s) = 1 THEN s[1] * Unit ELSE s[1] * Unit + s[2]

\* datetime.isoformat: the fraction is left out when it is zero
isoformat(t) == IF t % Unit = 0 THEN <<t \div Unit>> ELSE <<t \div Unit, t % Unit>>

\* one comparison fromisoformat(a) > fromisoformat(b), operands parsed left to right
CmpRaises(a, b) == ~WellFormed(a) \/ ~WellFormed(b)
CmpLater_orEqual(a, b) == fromisoformat(a) >= fromisoformat(b)
CmpLater(a, b) == fromisoformat(a) > fromisoformat(b)

\* is_record_updated: [raised, value]; clock is what datetime.now() returns
is_record_updated(record, last_update_date, clock) ==
    LET w == IF last_update_date = <<>> THEN isoformat(clock) ELSE last_update_date
    IN  IF CmpRaises(record.updated_date, w)
          THEN [raised |-> TRUE, value |-> FALSE]
        ELSE IF CmpLater(record.updated_date, w)
          THEN [raised |-> FALSE, value |-> TRUE]
        ELSE IF CmpRaises(record.created_date, w)
          THEN [raised |-> TRUE, value |-> FALSE]
        ELSE [raised |-> FALSE, value |-> CmpLater(record.created_date, w)]

\* ------------------------------------------------------------- page source
Rec(i, u, c, b) == [id |-> i, updated_date |-> u, created_date |-> c, body |-> b]

\* the page sequences the external source may serve to a run
Sources ==
    { << <<Rec("A", <<0, 1>>, <<0, 1>>, 1), Rec("B", <<0, 1>>, <<0, 1>>, 1)>>,
         <<Rec("A", <<1>>, <<0, 1>>, 2)>> >>,
      << <<Rec("A", <<1, 1>>, <<0, 1>>, 1)>>,
         <<Rec("B", <<0, 1>>, <<1, 2, 3>>, 1), Rec("C", <<2, 1>>, <<2>>, 1)>> >> }

\* the list comprehension of the page loop
PageRaises(page, w, clock) ==
    \E i \in 1..Len(page) : is_record_updated(page[i], w, clock).raised

UpdatedRecords_all(page, w, clock) == page

UpdatedRecords(page, w, clock) ==
    SelectSeq(page, LAMBDA r : is_record_updated(r, w, clock).value)

\* -------------------------------------------------------- target collection
\* works.replace_one({"id": record["id"]}, record, upsert=True)
Matching(coll, id) == {i \in 1..Len(coll) : coll[i].id = id}
FirstMatch(coll, id) == CHOOSE i \in Matching(coll, id) : \A j \in Matching(coll, id) : i <= j

replace_one_countsEveryReplace(coll, record) ==
    IF Matching(coll, record.id) = {}
      THEN [coll |-> Append(coll, record),
            response |-> [updatedExisting |-> FALSE, modified_count |-> 0]]
      ELSE [coll |-> [coll EXCEPT ![FirstMatch(coll, record.id)] = record],
            response |-> [updatedExisting |-> TRUE, modified_count |-> 1]]

replace_one_alwaysInserts(coll, record) ==
    [coll |-> Append(coll, record),
     response |-> [updatedExisting |-> FALSE, modified_count |-> 0]]

replace_one_keepsExisting(coll, record) ==
    IF Matching(coll, record.id) = {}
      THEN [coll |-> Append(coll, record),
            response |-> [updatedExisting |-> FALSE, modified_count |-> 0]]
      ELSE [coll |-> coll, response |-> [updatedExisting |-> TRUE, modified_count |-> 0]]

replace_one(coll, record) ==
    IF Matching(coll, record.id) = {}
      THEN [coll |-> Append(coll, record),
            response |-> [updatedExisting |-> FALSE, modified_count |-> 0]]
      ELSE LET i == FirstMatch(coll, record.id)
           IN  [coll |-> [coll EXCEPT ![i] = record],
                response |-> [updatedExisting |-> TRUE,
                              modified_count |-> IF coll[i] = record THEN 0 ELSE 1]]

\* ------------------------------------------------------------------ run-log
insert_one_keepsOne(log, entry) ==
    <<[f \in DOMAIN entry \cup {"_id"} |-> IF f = "_id" THEN 1 ELSE entry[f]]>>

\* meta.insert_one: the collection keys the entry by insertion
insert_one(log, entry) == Append(log, [f \in DOMAIN entry \cup {"_id"} |->
                                         IF f = "_id" THEN Len(log) + 1 ELSE entry[f]])

LatestEntry_oldest(log) == CHOOSE e \in {log[i] : i \in 1..Len(log)} :
                               \A i \in 1..Len(log) : log[i]._id >= e._id
LatestEntry_byRunDate(log) ==
    CHOOSE e \in {log[i] : i \in 1..Len(log)} :
        \A i \in 1..Len(log) : fromisoformat(log[i].run_date) <= fromisoformat(e.run_date)
\* meta.find().limit(1).sort({"_id": -1}).next()
LatestEntry(log) == CHOOSE e \in {log[i] : i \in 1..Len(log)} :
                        \A i \in 1..Len(log) : log[i]._id <= e._id

\* lines 115-118
LatestUpdateDate(log) == IF Len(log) = 0 THEN DEFAULT_DATE ELSE LatestEntry(log).run_date

RECURSIVE SumNew(_)
SumNew(rs) == IF rs = <<>> THEN 0
              ELSE (IF Head(rs).updatedExisting THEN 0 ELSE 1) + SumNew(Tail(rs))

RECURSIVE SumModified_countsMatched(_)
SumModified_countsMatched(rs) ==
    IF rs = <<>> THEN 0
    ELSE (IF Head(rs).updatedExisting THEN 1 ELSE 0) + SumModified_countsMatched(Tail(rs))

RECURSIVE SumModified(_)
SumModified(rs) == IF rs = <<>> THEN 0 ELSE Head(rs).modified_count + SumModified(Tail(rs))

SuccessEntry_countsUpserts(clock, coll, rs) ==
    [run_date |-> isoformat(clock), db_count |-> Len(rs),
     new |-> SumNew(rs), modified |-> SumModified(rs)]

SuccessEntry(clock, coll, rs) ==
    [run_date |-> isoformat(clock), db_count |-> Len(coll),
     new |-> SumNew(rs), modified |-> SumModified(rs)]

FailureEntry_withCounters(clock, e) ==
    [run_date |-> isoformat(clock), error |-> e, new |-> 0, modified |-> 0]

FailureEntry(clock, e) == [run_date |-> isoformat(clock), error |-> e]

IsSuccess(entry) == "db_count" \in DOMAIN entry
IsFailure(entry) == "error" \in DOMAIN entry

\* -------------------------------------------------------------------- state
VARIABLES
    now,                 \* wall clock (datetime.now()), in ticks
    works,               \* target collection: documents in insertion order
    meta,                \* run-log collection: entries in insertion order
    source,              \* pages the source serves to the current run
    pc,                  \* position inside run(): "idle" between invocations
    metaBound,           \* the local name meta has been assigned (line 110)
    latest_update_date,  \* local of run(): the watermark, <<>> before it is read
    pageIdx,             \* pages the pager has yielded so far
    updated_records,     \* local of run(): retained records of the current page
    recIdx,              \* records of updated_records already upserted
    responses,           \* local of run(): upsert responses so far
    error,               \* the exception the except clause caught, "" if none
    outcome,             \* how the last invocation ended
    runs,                \* invocations started
    meta0,               \* run-log when the current invocation started
    works0,              \* target collection when the current invocation started
    prev,                \* summary of the invocation before the current one
    raisedAt,            \* the statement of run() that raised, "" if none
    applied,             \* upserts of the current invocation, as the collection saw them
    frec, fwm, fres,     \* inputs and result of a stand-alone is_record_updated call
    qcfg, qpager         \* configuration and result of a stand-alone pager construction

vars == <<now, works, meta, source, pc, metaBound, latest_update_date, pageIdx,
          updated_records, recIdx, responses, error, outcome, runs, meta0, works0, prev,
          raisedAt, applied, frec, fwm, fres, qcfg, qpager>>

runLocals == <<metaBound, latest_update_date, pageIdx, updated_records, recIdx, responses>>
filterVars == <<frec, fwm, fres, qcfg, qpager>>
ghosts == <<meta0, works0, prev, raisedAt, applied>>
runGhosts == <<meta0, works0, prev>>

NoRec == Rec("", <<>>, <<>>, 0)
NoConfig == [filter |-> "", sample |-> [enabled |-> FALSE, size |-> 0, seed |-> 0],
             pagination |-> [page_size |-> 1]]
NoRun == [source |-> <<>>, watermark |-> <<>>, outcome |-> "NONE"]

Init ==
    /\ now = 0
    /\ works = <<>>
    /\ meta = <<>>
    /\ source \in Sources
    /\ pc = "idle"
    /\ metaBound = FALSE
    /\ latest_update_date = <<>>
    /\ pageIdx = 0
    /\ updated_records = <<>>
    /\ recIdx = 0
    /\ responses = <<>>
    /\ error = ""
    /\ outcome = "NONE"
    /\ runs = 0
    /\ meta0 = <<>>
    /\ works0 = <<>>
    /\ prev = NoRun
    /\ raisedAt = ""
    /\ applied = <<>>
    /\ frec = NoRec /\ fwm = <<>> /\ fres = <<>>
    /\ qcfg = NoConfig /\ qpager = <<>>

\* ------------------------------------------------------------------ actions
\* the module body calls run(); the external source may have changed since
StartRun ==
    /\ pc = "idle" /\ runs < MaxRuns
    /\ source' \in Sources
    /\ pc' = "connect"
    /\ runs' = runs + 1
    /\ metaBound' = FALSE /\ latest_update_date' = <<>> /\ pageIdx' = 0
    /\ updated_records' = <<>> /\ recIdx' = 0 /\ responses' = <<>>
    /\ error' = "" /\ outcome' = "INIT"
    /\ meta0' = meta /\ works0' = works
    /\ prev' = [source |-> source, watermark |-> latest_update_date, outcome |-> outcome]
    /\ raisedAt' = "" /\ applied' = <<>>
    /\ UNCHANGED <<now, works, meta, filterVars>>

Raise_swallowed(e, at) ==
    /\ pc' = pc /\ error' = e /\ raisedAt' = at

\* an exception raised inside the try block: control moves to the except clause
Raise(e, at) ==
    /\ pc' = "except" /\ error' = e /\ raisedAt' = at

\* lines 108-110
Connect ==
    /\ pc = "connect"
    /\ \/ /\ metaBound' = TRUE /\ pc' = "query" /\ UNCHANGED <<error, raisedAt>>
       \/ /\ Raise("ConnectionError", "connect") /\ UNCHANGED metaBound
    /\ UNCHANGED <<now, works, meta, source, latest_update_date, pageIdx,
                   updated_records, recIdx, responses, outcome, runs, runGhosts, applied,
                   filterVars>>

BuildQuery_goesOn ==
    /\ pc = "query"
    /\ \/ /\ pc' = "readlog" /\ UNCHANGED <<error, raisedAt>>
       \/ /\ pc' = "readlog" /\ error' = "QueryError" /\ raisedAt' = "query"
    /\ UNCHANGED <<now, works, meta, source, runLocals, outcome, runs, runGhosts, applied,
                   filterVars>>

\* lines 112-113: get_query, get_pager
BuildQuery ==
    /\ pc = "query"
    /\ \/ /\ pc' = "readlog" /\ UNCHANGED <<error, raisedAt>>
       \/ Raise("QueryError", "query")
    /\ UNCHANGED <<now, works, meta, source, runLocals, outcome, runs, runGhosts, applied,
                   filterVars>>

\* lines 115-118
ReadLog ==
    /\ pc = "readlog"
    /\ \/ /\ latest_update_date' = LatestUpdateDate(meta)
          /\ pc' = "page" /\ outcome' = "RUNNING" /\ UNCHANGED <<error, raisedAt>>
       \/ /\ Raise("TransportError", "readlog") /\ UNCHANGED <<latest_update_date, outcome>>
    /\ UNCHANGED <<now, works, meta, source, metaBound, pageIdx, updated_records,
                   recIdx, responses, runs, runGhosts, applied, filterVars>>

\* lines 122-127: the pager yields the next page and the page is filtered
NextPage ==
    /\ pc = "page" /\ pageIdx < Len(source)
    /\ \/ /\ ~PageRaises(source[pageIdx + 1], latest_update_date, now)
          /\ pageIdx' = pageIdx + 1
          /\ updated_records' = UpdatedRecords(source[pageIdx + 1], latest_update_date, now)
          /\ recIdx' = 0
          /\ pc' = IF updated_records' = <<>> THEN "page" ELSE "upsert"
          /\ UNCHANGED <<error, raisedAt>>
       \/ /\ PageRaises(source[pageIdx + 1], latest_update_date, now)
          /\ pageIdx' = pageIdx + 1
          /\ Raise("ParseError", "filter") /\ UNCHANGED <<updated_records, recIdx>>
       \/ /\ Raise("TransportError", "fetch")
          /\ UNCHANGED <<pageIdx, updated_records, recIdx>>
    /\ UNCHANGED <<now, works, meta, source, metaBound, latest_update_date,
                   responses, outcome, runs, runGhosts, applied, filterVars>>

\* what the target collection held for the record's id when the upsert arrived
Seen(coll, record) ==
    [record |-> record,
     existed |-> \E i \in 1..Len(coll) : coll[i].id = record.id,
     differed |-> \E i \in 1..Len(coll) : coll[i].id = record.id /\ coll[i] # record]

\* lines 129-136: one iteration of the inner loop
Upsert ==
    /\ pc = "upsert" /\ recIdx < Len(updated_records)
    /\ \/ LET record == updated_records[recIdx + 1]
              r == replace_one(works, record)
          IN  /\ works' = r.coll
              /\ responses' = Append(responses, r.response)
              /\ applied' = Append(applied, Seen(works, record))
              /\ recIdx' = recIdx + 1
              /\ pc' = IF recIdx' = Len(updated_records) THEN "page" ELSE "upsert"
              /\ UNCHANGED <<error, raisedAt>>
       \/ /\ Raise("TransportError", "upsert")
          /\ UNCHANGED <<works, responses, recIdx, applied>>
    /\ UNCHANGED <<now, meta, source, metaBound, latest_update_date, pageIdx,
                   updated_records, outcome, runs, runGhosts, filterVars>>

\* lines 138-143: the pager is exhausted
AppendSuccess ==
    /\ pc = "page" /\ pageIdx = Len(source)
    /\ \/ /\ meta' = insert_one(meta, SuccessEntry(now, works, responses))
          /\ pc' = "idle" /\ outcome' = "SUCCESS"
          /\ UNCHANGED <<error, raisedAt>>
       \/ /\ Raise("TransportError", "count") /\ UNCHANGED <<meta, outcome>>
       \/ /\ Raise("PersistenceError", "append") /\ UNCHANGED <<meta, outcome>>
    /\ UNCHANGED <<now, works, source, runLocals, runs, runGhosts, applied, filterVars>>

\* lines 145-149: the except clause
Except ==
    /\ pc = "except"
    /\ \/ /\ metaBound
          /\ meta' = insert_one(meta, FailureEntry(now, error))
          /\ outcome' = "FAILED"
       \/ /\ ~metaBound                      \* UnboundLocalError leaves run()
          /\ outcome' = "ABORTED"
          /\ UNCHANGED meta
       \/ /\ metaBound                       \* insert_one raises and leaves run()
          /\ outcome' = "ABORTED"
          /\ UNCHANGED meta
    /\ pc' = "idle"
    /\ UNCHANGED <<now, works, source, runLocals, error, runs, ghosts, filterVars>>

\* run() reads the wall clock on lines 139 and 147 only
ClockRead == pc = "except" \/ (pc = "page" /\ pageIdx = Len(source))

\* the wall clock advances
Tick ==
    /\ ClockRead /\ now < MaxClock
    /\ now' = now + 1
    /\ UNCHANGED <<works, meta, source, pc, runLocals, error, outcome, runs,
                   ghosts, filterVars>>

\* the wall clock is set back (datetime.now() is not monotonic)
ClockBack ==
    /\ ClockRead /\ now > 0
    /\ now' \in 0..(now - 1)
    /\ UNCHANGED <<works, meta, source, pc, runLocals, error, outcome, runs,
                   ghosts, filterVars>>

Next ==
    \/ StartRun
    \/ Connect
    \/ BuildQuery
    \/ ReadLog
    \/ NextPage
    \/ Upsert
    \/ AppendSuccess
    \/ Except
    \/ Tick
    \/ ClockBack

Spec == Init /\ [][Next]_vars

\* the same program run again and again on a source that does not change
StartRunSame ==
    /\ StartRun
    /\ source' = source

NextFixed ==
    \/ StartRunSame
    \/ Connect
    \/ BuildQuery
    \/ ReadLog
    \/ NextPage
    \/ Upsert
    \/ AppendSuccess
    \/ Except
    \/ Tick
    \/ ClockBack

SpecFixed == Init /\ [][NextFixed]_vars

\* ------------------------------------------- is_record_updated on its own
MaxSec == 1         \* largest seconds field of the strings tried

\* strings with and without fraction, with a fraction out of range, and ""
TimestampStrings ==
    {<<>>} \cup {<<s>> : s \in 0..MaxSec} \cup {<<s, u>> : s \in 0..MaxSec, u \in 0..Unit}

InitFilter ==
    /\ now \in 0..MaxClock
    /\ works = <<>> /\ meta = <<>> /\ source = <<>> /\ pc = "filter"
    /\ metaBound = FALSE /\ latest_update_date = <<>> /\ pageIdx = 0
    /\ updated_records = <<>> /\ recIdx = 0 /\ responses = <<>>
    /\ error = "" /\ outcome = "NONE" /\ runs = 0
    /\ meta0 = <<>> /\ works0 = <<>> /\ prev = NoRun
    /\ raisedAt = "" /\ applied = <<>>
    /\ frec \in {Rec("A", u, c, 1) : u \in TimestampStrings, c \in TimestampStrings}
    /\ fwm \in TimestampStrings
    /\ fres = <<>>
    /\ qcfg = NoConfig /\ qpager = <<>>

\* one call is_record_updated(frec, fwm); fwm = "" stands for an omitted argument too
CallFilter ==
    /\ pc = "filter" /\ fres = <<>>
    /\ fres' = <<is_record_updated(frec, fwm, now)>>
    /\ UNCHANGED <<now, works, meta, source, pc, runLocals, error, outcome, runs,
                   ghosts, frec, fwm, qcfg, qpager>>

NextFilter == CallFilter

SpecFilter == InitFilter /\ [][NextFilter]_vars

\* the same program under a wall clock that never goes back
NextMono ==
    \/ StartRun
    \/ Connect
    \/ BuildQuery
    \/ ReadLog
    \/ NextPage
    \/ Upsert
    \/ AppendSuccess
    \/ Except
    \/ Tick

SpecMono == Init /\ [][NextMono]_vars


\* ------------------------------------------ get_query and get_pager on their own
MaxSize == 2        \* largest sample size, seed and page size tried

\* Works().filter(**filter_params), then .sample(size, seed=seed) when enabled
get_query(filter_params, sample) ==
    IF sample.enabled
      THEN [filter |-> filter_params, sample |-> <<sample.size, sample.seed>>]
      ELSE [filter |-> filter_params, sample |-> <<>>]

\* query.paginate(method="page", per_page=pagination["page_size"])
get_pager(query, pagination) ==
    [query |-> query, method |-> "page", per_page |-> pagination.page_size]

InitPager ==
    /\ now = 0
    /\ works = <<>> /\ meta = <<>> /\ source = <<>> /\ pc = "pager"
    /\ metaBound = FALSE /\ latest_update_date = <<>> /\ pageIdx = 0
    /\ updated_records = <<>> /\ recIdx = 0 /\ responses = <<>>
    /\ error = "" /\ outcome = "NONE" /\ runs = 0
    /\ meta0 = <<>> /\ works0 = <<>> /\ prev = NoRun
    /\ raisedAt = "" /\ applied = <<>>
    /\ frec = NoRec /\ fwm = <<>> /\ fres = <<>>
    /\ qcfg \in [filter : {"is_oa", "from_date"},
                 sample : [enabled : BOOLEAN, size : 0..MaxSize, seed : 0..MaxSize],
                 pagination : [page_size : 1..MaxSize]]
    /\ qpager = <<>>

\* lines 112-113 of run()
CallPager ==
    /\ pc = "pager" /\ qpager = <<>>
    /\ qpager' = <<get_pager(get_query(qcfg.filter, qcfg.sample), qcfg.pagination)>>
    /\ UNCHANGED <<now, works, meta, source, pc, runLocals, error, outcome, runs,
                   ghosts, frec, fwm, fres, qcfg>>

NextPager == CallPager

SpecPager == InitPager /\ [][NextPager]_vars

\* ------------------------------------------------------------------ claims
Finished == pc = "idle" /\ runs > 0
WatermarkRead == latest_update_date # <<>>
SameInstant(a, b) == fromisoformat(a) = fromisoformat(b)

\* the entry the last finished invocation wrote, when it wrote one
RunEntry == meta[Len(meta)]

SuccessIndexes(log) == {i \in 1..Len(log) : IsSuccess(log[i])}
LastSuccessDate(log) ==
    IF SuccessIndexes(log) = {} THEN DEFAULT_DATE
    ELSE log[CHOOSE i \in SuccessIndexes(log) : \A j \in SuccessIndexes(log) : j <= i].run_date

\* the insert_one of the except clause raised: a second error, after the one
\* that was caught
InsertFailedInExcept == outcome = "ABORTED" /\ metaBound

\* C1: every invocation of run() leaves exactly one more entry in the run-log
\* than it found, whatever statement of the try block raised.
C1_OneEntryPerRun ==
    (Finished /\ ~InsertFailedInExcept) => Len(meta) = Len(meta0) + 1

\* C2: the run after a run that ended in FAILED reads as its watermark the
\* run_date of the most recent Success entry (the epoch default if there is
\* none), never the run_date of a Failure entry.
C2_WatermarkSkipsFailure ==
    (WatermarkRead /\ prev.outcome = "FAILED")
        => SameInstant(latest_update_date, LastSuccessDate(meta0))

\* C3: under a wall clock that never goes back, the run that follows a
\* successful run reads the run_date that run wrote, and its watermark is not
\* earlier than the watermark of that run.
C3_MonotonicWatermark ==
    (WatermarkRead /\ prev.outcome = "SUCCESS")
        => /\ Len(meta0) > 0
           /\ IsSuccess(meta0[Len(meta0)])
           /\ latest_update_date = meta0[Len(meta0)].run_date
           /\ fromisoformat(latest_update_date) >= fromisoformat(prev.watermark)

C3_Witness ==
    /\ WatermarkRead /\ prev.outcome = "SUCCESS" /\ runs = 3 /\ Len(meta0) = 2
    /\ fromisoformat(meta0[1].run_date) < fromisoformat(meta0[2].run_date)
    /\ fromisoformat(latest_update_date) > fromisoformat(prev.watermark)

\* C4: the watermark is the epoch default when the run-log is empty and
\* otherwise the run_date of the entry inserted last, whatever the run_date
\* values of the older entries are.
C4_WatermarkByInsertionOrder ==
    WatermarkRead
        => latest_update_date =
               IF Len(meta0) = 0 THEN <<0, 0>> ELSE meta0[Len(meta0)].run_date

C4_Witness ==
    /\ WatermarkRead /\ Len(meta0) = 2
    /\ fromisoformat(meta0[2].run_date) < fromisoformat(meta0[1].run_date)
    /\ latest_update_date = meta0[2].run_date

\* C5: with a supplied watermark W and well-formed timestamps the call does
\* not raise, and whenever it returns, it returns true exactly when
\* updated_date or created_date is strictly later than W.
LaterThan(s, w) == WellFormed(s) /\ fromisoformat(s) > fromisoformat(w)

C5_StaleIffStrictlyLater ==
    (fres # <<>> /\ fwm # <<>> /\ WellFormed(fwm))
        => /\ (WellFormed(frec.updated_date) /\ WellFormed(frec.created_date))
                  => ~fres[1].raised
           /\ ~fres[1].raised
                  => (fres[1].value <=> (\/ LaterThan(frec.updated_date, fwm)
                                         \/ LaterThan(frec.created_date, fwm)))

\* both timestamps denote the instant of W, written differently: not stale
C5_Witness ==
    /\ fres # <<>> /\ fwm = <<1, 0>>
    /\ frec.updated_date = <<1>> /\ frec.created_date = <<1, 0>>
    /\ ~fres[1].raised /\ ~fres[1].value


\* the upserts of the current invocation and the documents of a collection, by id
AppliedTo(id) == {k \in 1..Len(applied) : applied[k].record.id = id}
LastApplied(id) == applied[CHOOSE k \in AppliedTo(id) : \A j \in AppliedTo(id) : j <= k].record
DocsOf(coll, id) == {coll[i] : i \in Matching(coll, id)}

RECURSIVE ApplyAll(_, _)
ApplyAll(coll, ups) ==
    IF ups = <<>> THEN coll
    ELSE ApplyAll(replace_one(coll, Head(ups).record).coll, Tail(ups))

\* C6: a run in which fetching, filtering or upserting raised (and no second
\* error was raised by the insert of the except clause) has added exactly one
\* entry to the run-log, a Failure entry with run_date and error and no
\* counters; it has added no Success entry, and the target collection holds
\* the effect of every upsert applied before the error.
C6_FailureMidLoop ==
    (Finished /\ raisedAt \in {"fetch", "filter", "upsert"} /\ ~InsertFailedInExcept)
        => /\ Len(meta) = Len(meta0) + 1
           /\ SubSeq(meta, 1, Len(meta0)) = meta0
           /\ DOMAIN RunEntry = {"_id", "run_date", "error"}
           /\ RunEntry.error = error /\ error # ""
           /\ WellFormed(RunEntry.run_date)
           /\ SuccessIndexes(meta) = SuccessIndexes(meta0)
           /\ \A k \in 1..Len(applied) :
                  \E i \in 1..Len(works) : works[i] = LastApplied(applied[k].record.id)
           /\ works = ApplyAll(works0, applied)

C6_Witness ==
    /\ Finished /\ raisedAt = "upsert" /\ outcome = "FAILED" /\ pageIdx = 2
    /\ Len(applied) = 2 /\ Len(works) = Len(works0) + 2
    /\ IsFailure(RunEntry)

\* the last two invocations both succeeded, on the same source and with
\* watermarks that denote the same instant
TwiceSame ==
    /\ Finished /\ outcome = "SUCCESS" /\ prev.outcome = "SUCCESS"
    /\ prev.source = source
    /\ SameInstant(prev.watermark, latest_update_date)

Stale(r) == LET x == is_record_updated(r, latest_update_date, now)
            IN  ~x.raised /\ x.value

Positions == UNION {{<<p, i>> : i \in 1..Len(source[p])} : p \in 1..Len(source)}
RecordAt(pi) == source[pi[1]][pi[2]]

\* no id is served twice with differing content among the stale records
OneVersionPerId ==
    \A a, b \in Positions :
        (Stale(RecordAt(a)) /\ Stale(RecordAt(b)) /\ RecordAt(a).id = RecordAt(b).id)
            => RecordAt(a) = RecordAt(b)

\* C7 as stated: the second of two successful runs on an unchanged source
\* with an unchanged watermark counts new = 0 and modified = 0 and leaves the
\* target collection as the first run left it.
C7_Idempotent ==
    TwiceSame => (RunEntry.new = 0 /\ RunEntry.modified = 0 /\ works = works0)

\* C7 amended: the same, for a source that serves no id twice with differing
\* content among its stale records.
C7_IdempotentOneVersion ==
    (TwiceSame /\ OneVersionPerId)
        => (RunEntry.new = 0 /\ RunEntry.modified = 0 /\ works = works0)

C7_Witness ==
    /\ TwiceSame /\ OneVersionPerId /\ Len(applied) = 3
    /\ RunEntry.new = 0 /\ RunEntry.modified = 0

\* C8: in a Success entry, new counts the upserts that found no document with
\* the record's id, modified counts the upserts that found a document with
\* different content, an upsert that found an identical document counts in
\* neither, and no upsert counts twice.
C8_Counters ==
    (Finished /\ outcome = "SUCCESS")
        => /\ Len(responses) = Len(applied)
           /\ RunEntry.new = Cardinality({k \in 1..Len(applied) : ~applied[k].existed})
           /\ RunEntry.modified =
                  Cardinality({k \in 1..Len(applied) :
                                   applied[k].existed /\ applied[k].differed})
           /\ \A k \in 1..Len(responses) :
                  ~(~responses[k].updatedExisting /\ responses[k].modified_count # 0)
           /\ RunEntry.new + RunEntry.modified <= Len(applied)

C8_Witness ==
    /\ Finished /\ outcome = "SUCCESS"
    /\ RunEntry.new = 1 /\ RunEntry.modified = 1
    /\ \E k \in 1..Len(applied) : applied[k].existed /\ ~applied[k].differed

DistinctIds == \A j, k \in 1..Len(applied) :
                   applied[j].record.id = applied[k].record.id => j = k

\* C9: db_count of a Success entry is the number of documents in the target
\* collection at the end of the run, which is the number before the run plus
\* new; a run on an empty collection that upserts k records with distinct ids
\* writes new = k, modified = 0, db_count = k.
C9_DbCount ==
    (Finished /\ outcome = "SUCCESS")
        => /\ RunEntry.db_count = Len(works)
           /\ Len(works) = Len(works0) + RunEntry.new
           /\ (works0 = <<>> /\ DistinctIds)
                  => /\ RunEntry.new = Len(applied)
                     /\ RunEntry.modified = 0
                     /\ RunEntry.db_count = Len(applied)

C9_Witness ==
    /\ Finished /\ outcome = "SUCCESS" /\ works0 = <<>> /\ DistinctIds
    /\ Len(applied) = 3 /\ RunEntry.db_count = 3 /\ RunEntry.new = 3

\* both timestamps of the record are not later than the run's watermark
NotLater(r) ==
    /\ WellFormed(r.updated_date) /\ WellFormed(r.created_date)
    /\ fromisoformat(r.updated_date) <= fromisoformat(latest_update_date)
    /\ fromisoformat(r.created_date) <= fromisoformat(latest_update_date)

Yielded == {pi \in Positions : pi[1] <= pageIdx}

\* C10 as stated: a yielded record with created_date and updated_date both
\* not later than the watermark is not upserted, gets no response (so it
\* counts in no counter), and the documents of its id are as they were before
\* the run.  Stated for run-logs of Success entries only, so that the
\* watermark is one a successful run wrote.
C10_FilteredOutUnchanged ==
    SuccessIndexes(meta0) = 1..Len(meta0) =>
    /\ \A pi \in Yielded :
           NotLater(RecordAt(pi))
               => /\ \A k \in 1..Len(applied) : applied[k].record # RecordAt(pi)
                  /\ DocsOf(works, RecordAt(pi).id) = DocsOf(works0, RecordAt(pi).id)
    /\ Len(responses) <= Cardinality({pi \in Yielded : ~NotLater(RecordAt(pi))})

\* C10 amended: the same, the documents of its id being as they were before
\* the run unless another record of that id was upserted in the run.
C10_FilteredOut ==
    /\ \A pi \in Yielded :
           NotLater(RecordAt(pi))
               => /\ \A k \in 1..Len(applied) : applied[k].record # RecordAt(pi)
                  /\ AppliedTo(RecordAt(pi).id) = {}
                         => DocsOf(works, RecordAt(pi).id) = DocsOf(works0, RecordAt(pi).id)
    /\ Len(responses) <= Cardinality({pi \in Yielded : ~NotLater(RecordAt(pi))})

C10_Witness ==
    /\ Finished /\ outcome = "SUCCESS" /\ Len(applied) = 1
    /\ \E pi \in Yielded :
           /\ NotLater(RecordAt(pi))
           /\ fromisoformat(RecordAt(pi).updated_date) = fromisoformat(latest_update_date)
           /\ AppliedTo(RecordAt(pi).id) = {}
           /\ DocsOf(works0, RecordAt(pi).id) = {RecordAt(pi)}
           /\ DocsOf(works, RecordAt(pi).id) = {RecordAt(pi)}


\* C11: when the insert of the run's Success entry raises, the error is not
\* turned into a Failure entry and the run-log holds no entry for that run.
C11_AppendFailureNotLogged ==
    (Finished /\ raisedAt = "append") => (meta = meta0 /\ outcome # "FAILED")

\* C12: a finished run is in exactly one of two terminal states: SUCCESS,
\* with every page yielded, no error and a Success entry as its one entry, or
\* FAILED, with an error and a Failure entry as its one entry.  (Runs whose
\* except clause failed to insert are left aside, see C11.)
C12_TerminalStates ==
    (Finished /\ ~InsertFailedInExcept)
        => \/ /\ outcome = "SUCCESS" /\ error = "" /\ pageIdx = Len(source)
              /\ Len(meta) = Len(meta0) + 1 /\ IsSuccess(RunEntry) /\ ~IsFailure(RunEntry)
           \/ /\ outcome = "FAILED" /\ error # ""
              /\ Len(meta) = Len(meta0) + 1 /\ IsFailure(RunEntry) /\ ~IsSuccess(RunEntry)

\* C13: a run whose query construction raised has fetched no page and
\* applied no upsert, and it ended in FAILED with a Failure entry (unless the
\* insert of the except clause raised as well).
C13_QueryErrorBeforePages ==
    (Finished /\ raisedAt = "query" /\ ~InsertFailedInExcept)
        => /\ pageIdx = 0 /\ applied = <<>> /\ responses = <<>> /\ works = works0
           /\ outcome = "FAILED"
           /\ Len(meta) = Len(meta0) + 1
           /\ IsFailure(RunEntry) /\ RunEntry.error = "QueryError"

C13_Witness ==
    /\ Finished /\ raisedAt = "query" /\ outcome = "FAILED"
    /\ works0 # <<>> /\ works = works0
    /\ RunEntry.error = "QueryError"

\* C14: from the moment a statement of the page loop has raised, the run
\* fetches and filters no further page and applies no further upsert: its
\* next step is the except clause, which ends the run in FAILED (or leaves
\* run() when its own insert raises).
C14_FailFast ==
    [][(error # "" /\ raisedAt \in {"fetch", "filter", "upsert"} /\ runs' = runs)
          => /\ UNCHANGED <<works, pageIdx, updated_records, recIdx, responses, applied>>
             /\ pc = "except"
                    => (pc' = "except" \/ (pc' = "idle" /\ outcome' \in {"FAILED", "ABORTED"}))
             /\ pc' \in {"except", "idle"}]_vars

\* the second record of a two-record page failed: the first stays upserted,
\* the second page was never fetched
C14_Witness ==
    /\ Finished /\ raisedAt = "upsert" /\ outcome = "FAILED"
    /\ pageIdx = 1 /\ Len(source) = 2
    /\ Len(updated_records) = 2 /\ recIdx = 1 /\ Len(applied) = 1


\* every timestamp of the source is well-formed and later than the epoch default
AllLaterThanEpoch ==
    \A pi \in Positions :
        /\ WellFormed(RecordAt(pi).updated_date) /\ WellFormed(RecordAt(pi).created_date)
        /\ fromisoformat(RecordAt(pi).updated_date) > fromisoformat(DEFAULT_DATE)
        /\ fromisoformat(RecordAt(pi).created_date) > fromisoformat(DEFAULT_DATE)

\* C15: on a source that never changes and whose timestamps are all later
\* than the epoch default, every record with both timestamps not later than
\* the watermark a run reads has a document in the target collection when
\* that run starts.
C15_WatermarkSound ==
    (WatermarkRead /\ AllLaterThanEpoch)
        => \A pi \in Positions :
               NotLater(RecordAt(pi)) => Matching(works0, RecordAt(pi).id) # {}

\* the same, for run-logs that hold Success entries only
C15_SoundAfterSuccesses ==
    (WatermarkRead /\ AllLaterThanEpoch /\ SuccessIndexes(meta0) = 1..Len(meta0))
        => \A pi \in Positions :
               NotLater(RecordAt(pi)) => Matching(works0, RecordAt(pi).id) # {}


\* C16: the pager uses page (offset) pagination when sample.enabled is true
\* and cursor pagination when it is false.
C16_PagerMethod ==
    qpager # <<>>
        => qpager[1].method = IF qcfg.sample.enabled THEN "page" ELSE "cursor"


\* C17: no step removes or changes an entry of the run-log: the log of any
\* later state starts with the log of the earlier one.
C17_AppendOnly ==
    [][Len(meta') >= Len(meta) /\ SubSeq(meta', 1, Len(meta)) = meta]_vars

C17_Witness ==
    /\ Finished /\ runs = 3 /\ Len(meta) = 3
    /\ IsFailure(meta[1]) /\ IsSuccess(meta[2])
    /\ SubSeq(meta, 1, 2) = meta0

\* C18: the target collection, empty at first, never holds two documents
\* with the same id.
C18_OneDocumentPerId ==
    \A i, j \in 1..Len(works) : works[i].id = works[j].id => i = j

\* an id stored by an earlier run is upserted twice in this run
C18_Witness ==
    /\ runs >= 2 /\ Finished
    /\ \E id \in {"A"} :
           /\ Cardinality(AppliedTo(id)) = 2
           /\ \A k \in AppliedTo(id) : applied[k].existed
           /\ Cardinality(Matching(works, id)) = 1

\* the stale records of an id in the order the pages yield them
StalePositions(id) == {pi \in Positions : Stale(RecordAt(pi)) /\ RecordAt(pi).id = id}
NotAfter(a, b) == a[1] < b[1] \/ (a[1] = b[1] /\ a[2] <= b[2])
LastStale(id) == RecordAt(CHOOSE a \in StalePositions(id) :
                              \A b \in StalePositions(id) : NotAfter(b, a))

\* C19: after a successful run the one document of every id that had a stale
\* record is the last stale record the pages yielded for that id, and the
\* documents of all other ids are those from before the run.
C19_LastWriteWins ==
    (Finished /\ outcome = "SUCCESS")
        => /\ \A pi \in Positions :
                  Stale(RecordAt(pi))
                      => DocsOf(works, RecordAt(pi).id) = {LastStale(RecordAt(pi).id)}
           /\ \A i \in 1..Len(works0) :
                  StalePositions(works0[i].id) = {}
                      => DocsOf(works, works0[i].id) = DocsOf(works0, works0[i].id)
           /\ \A i \in 1..Len(works) :
                  StalePositions(works[i].id) = {}
                      => DocsOf(works, works[i].id) = DocsOf(works0, works[i].id)

C19_Witness ==
    /\ Finished /\ outcome = "SUCCESS"
    /\ Cardinality(StalePositions("A")) = 2
    /\ LastStale("A").body = 2 /\ DocsOf(works, "A") = {LastStale("A")}
    /\ DocsOf(works0, "A") # {} /\ DocsOf(works0, "A") # DocsOf(works, "A")
    /\ StalePositions("C") = {} /\ DocsOf(works0, "C") # {}
    /\ DocsOf(works, "C") = DocsOf(works0, "C")

====
